---------------------------- MODULE Spec2Model ----------------------------
(***************************************************************************)
(* Model of the Supabase "Send SMS Hook" edge function that forwards an    *)
(* OTP to the Authentica.sa API (src/index.ts).                            *)
(*                                                                         *)
(* Strings on which the code works character by character (phone numbers,  *)
(* the SMS_COUNTRY_CODES list, template ids) are sequences of one-character*)
(* strings.  JSON values are tagged records.  A request is a record `h`    *)
(* holding the handler's local variables and its program position.         *)
(***************************************************************************)
EXTENDS Integers, Sequences, FiniteSets, TLC

VARIABLES cfg,    \* the module-level configuration constants (index.ts 26-38)
          hs,     \* request id -> the state of that invocation of the handler
          probe   \* argument and result of a direct call of shouldUseSMS

vars == <<cfg, hs, probe>>

---------------------------------------------------------------------------
(* Bounds of the enumerated strings.                                       *)
MaxPhoneLen == 3
MaxCodesLen == 3

---------------------------------------------------------------------------
(* Character strings.                                                      *)

\* the characters matched by \s in the samples, and the hyphen
IsSpace(ch) == ch \in {" ", "\t"}

RECURSIVE StringsUpTo(_, _)
StringsUpTo(alphabet, n) ==
  IF n = 0 THEN {<<>>}
  ELSE LET shorter == StringsUpTo(alphabet, n - 1)
       IN  shorter \cup {Append(s, ch) : s \in shorter, ch \in alphabet}

\* String.prototype.startsWith
startsWith(s, p) ==
  /\ Len(p) <= Len(s)
  /\ \A i \in 1..Len(p) : s[i] = p[i]

\* String.prototype.trim
RECURSIVE trimStart(_)
trimStart(s) ==
  IF s # <<>> /\ IsSpace(Head(s)) THEN trimStart(Tail(s)) ELSE s

RECURSIVE trimEnd(_)
trimEnd(s) ==
  IF s # <<>> /\ IsSpace(s[Len(s)]) THEN trimEnd(SubSeq(s, 1, Len(s) - 1)) ELSE s

trim(s) == trimEnd(trimStart(s))

\* String.prototype.split(","): a sequence of the pieces between commas
RECURSIVE split(_)
split(s) ==
  IF \A i \in 1..Len(s) : s[i] # ","
  THEN <<s>>
  ELSE LET k == CHOOSE i \in 1..Len(s) :
                  s[i] = "," /\ \A j \in 1..(i - 1) : s[j] # ","
       IN  <<SubSeq(s, 1, k - 1)>> \o split(SubSeq(s, k + 1, Len(s)))

\* phone.replace(/[\s-]/g, "")
RECURSIVE removeSpacesAndDashes(_)
removeSpacesAndDashes(s) ==
  IF s = <<>> THEN <<>>
  ELSE IF IsSpace(Head(s)) \/ Head(s) = "-"
       THEN removeSpacesAndDashes(Tail(s))
       ELSE <<Head(s)>> \o removeSpacesAndDashes(Tail(s))

\* s.startsWith("+") ? s : `+${s}`
ensurePlus(s) == IF startsWith(s, <<"+">>) THEN s ELSE <<"+">> \o s

\* parseInt on a string of decimal digits: the value of the leading digits
DigitValue(ch) ==
  CASE ch = "0" -> 0 [] ch = "1" -> 1 [] ch = "2" -> 2 [] ch = "3" -> 3
    [] ch = "4" -> 4 [] ch = "5" -> 5 [] ch = "6" -> 6 [] ch = "7" -> 7
    [] ch = "8" -> 8 [] ch = "9" -> 9

IsDigit(ch) == ch \in {"0", "1", "2", "3", "4", "5", "6", "7", "8", "9"}

RECURSIVE leadingDigits(_)
leadingDigits(s) ==
  IF s # <<>> /\ IsDigit(Head(s)) THEN <<Head(s)>> \o leadingDigits(Tail(s))
  ELSE <<>>

RECURSIVE digitsValue(_)
digitsValue(d) ==
  IF d = <<>> THEN 0
  ELSE 10 * digitsValue(SubSeq(d, 1, Len(d) - 1)) + DigitValue(d[Len(d)])

parseInt(s) ==
  LET d == leadingDigits(trimStart(s))
  IN  [nan |-> d = <<>>, value |-> digitsValue(d)]

---------------------------------------------------------------------------
(* Channel routing: getSmsCountryCodes and shouldUseSMS.                   *)

LongerThanOne(code) == Len(code) > 1

getSmsCountryCodes(c) ==
  LET parts   == split(c.SMS_COUNTRY_CODES)
      trimmed == [i \in 1..Len(parts) |-> trim(parts[i])]
      plussed == [i \in 1..Len(parts) |-> ensurePlus(trimmed[i])]
  IN  SelectSeq(plussed, LongerThanOne)

\* mutant: the phone is compared as received, without normalisation
shouldUseSMSRaw(c, phone) ==
  IF c.AUTHENTICA_WHATSAPP_TEMPLATE_ID = <<>> THEN TRUE
  ELSE LET smsCountryCodes == getSmsCountryCodes(c)
       IN  IF Len(smsCountryCodes) = 0 THEN TRUE
           ELSE \E i \in 1..Len(smsCountryCodes) :
                   startsWith(phone, smsCountryCodes[i])

shouldUseSMS(c, phone) ==
  IF c.AUTHENTICA_WHATSAPP_TEMPLATE_ID = <<>> THEN TRUE
  ELSE LET smsCountryCodes == getSmsCountryCodes(c)
       IN  IF Len(smsCountryCodes) = 0 THEN TRUE
           ELSE LET normalized == ensurePlus(removeSpacesAndDashes(phone))
                IN  \E i \in 1..Len(smsCountryCodes) :
                       startsWith(normalized, smsCountryCodes[i])

---------------------------------------------------------------------------
(* JSON values as the handler sees them after JSON.parse.                  *)

Undefined == [tag |-> "undefined", s |-> <<>>, n |-> 0]
Null      == [tag |-> "null", s |-> <<>>, n |-> 0]
Str(s)    == [tag |-> "string", s |-> s, n |-> 0]
Num(n)    == [tag |-> "number", s |-> <<>>, n |-> n]
Bool(b)   == [tag |-> "boolean", s |-> <<>>, n |-> IF b THEN 1 ELSE 0]

\* JavaScript truthiness, as used by `!phone`, `!otp` and `||`
Truthy(v) ==
  CASE v.tag = "undefined" -> FALSE
    [] v.tag = "null"      -> FALSE
    [] v.tag = "string"    -> v.s # <<>>
    [] v.tag = "number"    -> v.n # 0
    [] v.tag = "boolean"   -> v.n = 1

\* a || b
Or(a, b) == IF Truthy(a) THEN a ELSE b

NoError == [name |-> "", message |-> ""]
Error(name, message) == [name |-> name, message |-> message]

\* The raw request body: text that is not JSON ("text", "empty"), or the text
\* of a JSON value: null, a string, or an object whose members user and sms
\* are absent, null or objects.
NoPayload ==
  [kind |-> "empty", user |-> "undefined", phone |-> Undefined,
   new_phone |-> Undefined, sms |-> "undefined", otp |-> Undefined]

NoEvent ==
  [type |-> "undefined",
   user |-> [type |-> "undefined", phone |-> Undefined, new_phone |-> Undefined],
   sms  |-> [type |-> "undefined", otp |-> Undefined]]

\* JSON.parse(payload): a SyntaxError for text that is not JSON, otherwise
\* the value the text denotes
JSONparse(payload) ==
  IF payload.kind \in {"empty", "text"}
  THEN [ok |-> FALSE, value |-> NoEvent,
        error |-> Error("SyntaxError", "Unexpected token in JSON")]
  ELSE [ok |-> TRUE,
        value |-> [type |-> payload.kind,
                   user |-> [type |-> payload.user,
                             phone |-> payload.phone,
                             new_phone |-> payload.new_phone],
                   sms  |-> [type |-> payload.sms, otp |-> payload.otp]],
        error |-> NoError]

\* event?.user?.<field>
userField(event, field) ==
  IF event.type # "object" \/ event.user.type # "object" THEN Undefined
  ELSE event.user[field]

\* event?.sms?.otp
smsOtp(event) ==
  IF event.type # "object" \/ event.sms.type # "object" THEN Undefined
  ELSE event.sms.otp

---------------------------------------------------------------------------
(* The state of one invocation of the handler.                             *)

NewRequest(method) ==
  [pc             |-> "start",
   method         |-> method,
   steps          |-> 0,
   bodyRead       |-> FALSE,     \* req.text() was called
   bodyOutcome    |-> <<>>,      \* what req.text() produced
   payload        |-> <<>>,
   verifyAttempted|-> FALSE,     \* wh.verify was called
   sigValid       |-> <<>>,      \* whether the headers sign the payload
   parsed         |-> FALSE,     \* JSON.parse / wh.verify was reached
   event          |-> <<>>,
   extracted      |-> FALSE,     \* lines 239-240 were executed
   phone          |-> Undefined,
   otp            |-> Undefined,
   formattedPhone |-> <<>>,
   sendArgs       |-> <<>>,      \* the arguments of the sendSMS call
   requests       |-> <<>>,      \* the fetch calls made to the provider
   fetchOutcome   |-> <<>>,
   fetchResponse  |-> <<>>,
   textOutcome    |-> <<>>,
   result         |-> <<>>,      \* the value sendSMS resolved with
   responses      |-> <<>>,      \* the Response objects returned
   uncaught       |-> <<>>]      \* exceptions that left the handler

JsonHeaders == ("Content-Type" :> "application/json")

\* return new Response(JSON.stringify(body), {status, headers})
Respond(h, status, body) ==
  [h EXCEPT !.pc = "done",
            !.responses = Append(@, [status |-> status,
                                     headers |-> JsonHeaders,
                                     body |-> body])]

\* mutant: the catch block rethrows instead of answering
catchAllRethrows(h, error) ==
  [h EXCEPT !.pc = "done", !.uncaught = Append(@, error)]

\* the catch block of the handler, lines 314-329
catchAll(h, error) ==
  Respond(h, 500,
          [code |-> "unexpected_failure",
           message |-> IF error.message # "" THEN <<error.message>>
                       ELSE <<"Internal server error">>])

\* mutant: only GET is rejected
checkMethodRejectsGetOnly(h) ==
  IF h.method = "GET"
  THEN Respond(h, 405, [code |-> "method_not_allowed",
                        message |-> <<"Only POST method is allowed">>])
  ELSE [h EXCEPT !.pc = "readBody"]

\* lines 186-197
checkMethod(h) ==
  IF h.method # "POST"
  THEN Respond(h, 405, [code |-> "method_not_allowed",
                        message |-> <<"Only POST method is allowed">>])
  ELSE [h EXCEPT !.pc = "readBody"]

\* line 202: await req.text()
readBody(h, outcome) ==
  LET g == [h EXCEPT !.bodyRead = TRUE, !.bodyOutcome = <<outcome>>]
  IN  IF outcome.ok
      THEN [g EXCEPT !.payload = <<outcome.payload>>, !.pc = "verify"]
      ELSE catchAll(g, outcome.error)

\* HOOK_SECRET.replace("v1,whsec_", "")
stripPrefix(secret) == secret.key

\* new Webhook(secret).verify(payload, headers) of standardwebhooks: throws
\* for an empty secret and for headers that do not sign the payload, and
\* otherwise returns JSON.parse(payload)
webhookVerify(secret, payload, sigValid) ==
  IF secret = ""
  THEN [ok |-> FALSE, value |-> NoEvent,
        error |-> Error("Error", "Secret can't be empty.")]
  ELSE IF ~sigValid
  THEN [ok |-> FALSE, value |-> NoEvent,
        error |-> Error("WebhookVerificationError", "No matching signature found")]
  ELSE JSONparse(payload)

\* HOOK_SECRET is a non-empty string
secretConfigured(c) == c.HOOK_SECRET.set /\ (c.HOOK_SECRET.prefixed \/ c.HOOK_SECRET.key # "")

\* mutant: a failed verification is answered 401
verifyWebhookRejects(c, h, sigValid) ==
  LET payload  == h.payload[1]
      g        == [h EXCEPT !.sigValid = <<sigValid>>, !.parsed = TRUE]
      proceed(k, event) == [k EXCEPT !.event = <<event>>, !.pc = "extract"]
  IN  IF secretConfigured(c)
      THEN LET v  == webhookVerify(stripPrefix(c.HOOK_SECRET), payload, sigValid)
               g2 == [g EXCEPT !.verifyAttempted = TRUE]
           IN  IF v.ok THEN proceed(g2, v.value)
               ELSE Respond(g2, 401, [code |-> "unauthorized",
                                      message |-> <<"Invalid signature">>])
      ELSE LET p == JSONparse(payload)
           IN  IF p.ok THEN proceed(g, p.value) ELSE catchAll(g, p.error)

\* mutant: a failed verification is not followed by the fallback parse
verifyWebhookNoFallback(c, h, sigValid) ==
  LET payload  == h.payload[1]
      g        == [h EXCEPT !.sigValid = <<sigValid>>, !.parsed = TRUE]
      proceed(k, event) == [k EXCEPT !.event = <<event>>, !.pc = "extract"]
  IN  IF secretConfigured(c)
      THEN LET v  == webhookVerify(stripPrefix(c.HOOK_SECRET), payload, sigValid)
               g2 == [g EXCEPT !.verifyAttempted = TRUE]
           IN  IF v.ok THEN proceed(g2, v.value) ELSE catchAll(g2, v.error)
      ELSE LET p == JSONparse(payload)
           IN  IF p.ok THEN proceed(g, p.value) ELSE catchAll(g, p.error)

\* lines 205-233
verifyWebhook(c, h, sigValid) ==
  LET payload  == h.payload[1]
      g        == [h EXCEPT !.sigValid = <<sigValid>>, !.parsed = TRUE]
      proceed(k, event) == [k EXCEPT !.event = <<event>>, !.pc = "extract"]
  IN  IF secretConfigured(c)
      THEN LET v  == webhookVerify(stripPrefix(c.HOOK_SECRET), payload, sigValid)
               g2 == [g EXCEPT !.verifyAttempted = TRUE]
           IN  IF v.ok THEN proceed(g2, v.value)
               ELSE LET p == JSONparse(payload)
                    IN  IF p.ok THEN proceed(g2, p.value)
                        ELSE catchAll(g2, p.error)
      ELSE LET p == JSONparse(payload)
           IN  IF p.ok THEN proceed(g, p.value) ELSE catchAll(g, p.error)

\* mutant: the OTP is validated before the phone
extractPayloadOtpFirst(h) ==
  LET event == h.event[1]
      phone == Or(userField(event, "phone"), userField(event, "new_phone"))
      otp   == smsOtp(event)
      g     == [h EXCEPT !.extracted = TRUE, !.phone = phone, !.otp = otp]
  IN  IF ~Truthy(otp)
      THEN Respond(g, 400, [code |-> "invalid_payload",
                            message |-> <<"Missing OTP">>])
      ELSE IF ~Truthy(phone)
      THEN Respond(g, 400, [code |-> "invalid_payload",
                            message |-> <<"Missing phone number">>])
      ELSE [g EXCEPT !.pc = "send"]

\* lines 239-274
extractPayload(h) ==
  LET event == h.event[1]
      phone == Or(userField(event, "phone"), userField(event, "new_phone"))
      otp   == smsOtp(event)
      g     == [h EXCEPT !.extracted = TRUE, !.phone = phone, !.otp = otp]
  IN  IF ~Truthy(phone)
      THEN Respond(g, 400, [code |-> "invalid_payload",
                            message |-> <<"Missing phone number">>])
      ELSE IF ~Truthy(otp)
      THEN Respond(g, 400, [code |-> "invalid_payload",
                            message |-> <<"Missing OTP">>])
      ELSE [g EXCEPT !.pc = "send"]

\* mutant: the phone is normalised before it is sent
formatPhoneStripping(phone) == ensurePlus(removeSpacesAndDashes(phone))

\* lines 277-280
formatPhone(phone) ==
  IF ~startsWith(phone, <<"+">>) THEN <<"+">> \o phone ELSE phone

NoData == [kind |-> "none", text |-> ""]

\* lines 286-312
handleResult(h, result) ==
  LET g == [h EXCEPT !.result = <<result>>]
  IN  IF ~result.success
      THEN Respond(g, 500, [code |-> "sms_send_failure",
                            message |-> IF result.error # <<>> THEN result.error
                                        ELSE <<"Failed to send SMS">>])
      ELSE Respond(g, 200, [success |-> TRUE])

\* mutant: the exception's text is returned (the commented-out line 165)
sendSMSCatchLeaks(error) ==
  [success |-> FALSE,
   error |-> IF error.message # "" THEN <<error.message>> ELSE <<"Failed to send SMS">>,
   data |-> NoData]

\* the catch block of sendSMS, lines 158-167
sendSMSCatch(error) ==
  [success |-> FALSE, error |-> <<"Failed to send SMS">>, data |-> NoData]

\* sendSMS up to the fetch call, lines 93-128
sendSMS(c, h, phone, otp) ==
  LET g == [h EXCEPT !.sendArgs = <<[phone |-> phone, otp |-> otp]>>]
  IN  IF c.AUTHENTICA_API_KEY = ""
      THEN handleResult(g, [success |-> FALSE,
                            error |-> <<"SMS service not configured">>,
                            data |-> NoData])
      ELSE LET useSMS         == shouldUseSMS(c, phone)
               deliveryMethod == IF useSMS THEN "sms" ELSE "whatsapp"
               templateId     == IF useSMS THEN c.AUTHENTICA_SMS_TEMPLATE_ID
                                 ELSE c.AUTHENTICA_WHATSAPP_TEMPLATE_ID
               request ==
                 [url     |-> "https://api.authentica.sa/api/v2/send-otp",
                  method  |-> "POST",
                  headers |-> [Accept |-> "application/json",
                               XAuthorization |-> c.AUTHENTICA_API_KEY,
                               ContentType |-> "application/json"],
                  body    |-> [method |-> deliveryMethod,
                               phone |-> phone,
                               template_id |-> parseInt(templateId),
                               fallback_email |-> c.FALLBACK_EMAIL,
                               otp |-> otp]]
           IN  [g EXCEPT !.requests = Append(@, request), !.pc = "fetch"]

\* lines 276-284: format the phone and call sendSMS; a phone that is not a
\* string has no startsWith method
formatAndSend(c, h) ==
  IF h.phone.tag # "string"
  THEN catchAll(h, Error("TypeError", "formattedPhone.startsWith is not a function"))
  ELSE LET formattedPhone == formatPhone(h.phone.s)
       IN  sendSMS(c, [h EXCEPT !.formattedPhone = <<formattedPhone>>],
                   formattedPhone, h.otp)

\* mutant: a rejected fetch is tried a second time
fetchReturnsRetries(h, outcome) ==
  LET g == [h EXCEPT !.fetchOutcome = <<outcome>>]
  IN  IF outcome.ok
      THEN [g EXCEPT !.fetchResponse = <<[status |-> outcome.status,
                                          body |-> outcome.body]>>,
                     !.pc = "text"]
      ELSE IF Len(h.requests) < 2
      THEN [h EXCEPT !.requests = Append(@, @[1])]
      ELSE handleResult(g, sendSMSCatch(outcome.error))

\* line 114: await fetch(...) resolves with a response or rejects
fetchReturns(h, outcome) ==
  LET g == [h EXCEPT !.fetchOutcome = <<outcome>>]
  IN  IF outcome.ok
      THEN [g EXCEPT !.fetchResponse = <<[status |-> outcome.status,
                                          body |-> outcome.body]>>,
                     !.pc = "text"]
      ELSE handleResult(g, sendSMSCatch(outcome.error))

\* mutant: only status 200 counts as success
responseOkOnly200(status) == status = 200

\* response.ok
responseOk(status) == status >= 200 /\ status <= 299

\* lines 131-157: await response.text() and the classification of the response
textReturns(h, outcome) ==
  LET g        == [h EXCEPT !.textOutcome = <<outcome>>]
      response == h.fetchResponse[1]
  IN  IF ~outcome.ok THEN handleResult(g, sendSMSCatch(outcome.error))
      ELSE LET data == response.body
           IN  IF ~responseOk(response.status)
               THEN handleResult(g,
                      [success |-> FALSE,
                       error |-> <<"Authentica API error: ", ToString(response.status)>>,
                       data |-> data])
               ELSE handleResult(g, [success |-> TRUE, error |-> <<>>, data |-> data])

---------------------------------------------------------------------------
(* The inputs of a request and the configurations explored.                *)

Methods == {"POST", "GET", "DELETE"}

PhonePlain    == <<"+", "9", "6", "6", "5", "1", "2", "3", "4", "5", "6", "7", "8">>
PhoneDashed   == <<"9", "6", "6", "-", "5", "1", "2", "-", "3", "4", "5", "6", "7", "8">>
PhoneBare     == <<"9", "6", "6", "5", "1", "2">>
PhoneSpaced   == <<"+", "9", "6", "6", " ", "5", "1", "2">>
PhoneLeadSpace == <<" ", "+", "9", "6", "6", "5", "1", "2">>
PhoneUS       == <<"+", "1", "4", "1", "5", "5", "5", "5", "0", "1", "2", "3">>
PhoneUSBare   == <<"1", "4", "1", "5", "5", "5", "5">>
OtpDigits     == <<"1", "2", "3", "4", "5", "6">>

PhoneStrings ==
  {PhonePlain, PhoneDashed, PhoneBare, PhoneSpaced, PhoneLeadSpace, PhoneUS}

PhoneValues ==
  {Undefined, Null, Str(<<>>), Num(0), Num(966512), Bool(TRUE)}
    \cup {Str(p) : p \in PhoneStrings}

NewPhoneValues == {Undefined, Str(<<>>), Str(PhoneUS), Str(PhoneUSBare), Num(1415)}

OtpValues == {Undefined, Null, Str(<<>>), Str(OtpDigits), Num(0), Num(123456)}

Payload(kind, user, phone, new_phone, sms, otp) ==
  [kind |-> kind, user |-> user, phone |-> phone, new_phone |-> new_phone,
   sms |-> sms, otp |-> otp]

Payloads ==
  {Payload(k, "undefined", Undefined, Undefined, "undefined", Undefined) :
      k \in {"empty", "text", "null", "string"}}
    \cup {Payload("object", u, Undefined, Undefined, "undefined", Undefined) :
            u \in {"undefined", "null"}}
    \cup {Payload("object", u, Undefined, Undefined, "object", o) :
            u \in {"undefined", "null"}, o \in OtpValues}
    \cup {Payload("object", "object", p, n, "undefined", Undefined) :
            p \in PhoneValues, n \in NewPhoneValues}
    \cup {Payload("object", "object", p, n, "object", o) :
            p \in PhoneValues, n \in NewPhoneValues, o \in OtpValues}

BodyOutcomes ==
  {[ok |-> TRUE, payload |-> p, error |-> NoError] : p \in Payloads}
    \cup {[ok |-> FALSE, payload |-> NoPayload, error |-> Error("TypeError", m)] :
            m \in {"", "error reading a body from connection"}}

ProviderStatuses == {200, 204, 299, 300, 422, 500}

ProviderBodies ==
  {[kind |-> "json", text |-> "{\"message\":\"invalid template\"}"],
   [kind |-> "text", text |-> "<html>502 Bad Gateway</html>"]}

NoBody == [kind |-> "none", text |-> ""]

FetchOutcomes ==
  {[ok |-> TRUE, status |-> st, body |-> b, error |-> NoError] :
      st \in ProviderStatuses, b \in ProviderBodies}
    \cup {[ok |-> FALSE, status |-> 0, body |-> NoBody,
           error |-> Error("TypeError", "error sending request: connection refused")]}

TextOutcomes ==
  {[ok |-> TRUE, error |-> NoError],
   [ok |-> FALSE, error |-> Error("TypeError", "error decoding response body")]}

NoSecret == [set |-> FALSE, prefixed |-> FALSE, key |-> ""]

HookSecrets ==
  {NoSecret,
   [set |-> TRUE, prefixed |-> TRUE, key |-> "c2VjcmV0"],
   [set |-> TRUE, prefixed |-> TRUE, key |-> ""]}

CodesSamples ==
  {<<>>,
   <<"+", "9", "6", "6">>,
   <<"9", "6", "6", ",", " ", "+", "1">>,
   <<" ", ",", "+">>}

Config(apiKey, whatsapp, secret, codes) ==
  [AUTHENTICA_API_KEY              |-> apiKey,
   AUTHENTICA_SMS_TEMPLATE_ID      |-> <<"3", "1">>,
   AUTHENTICA_WHATSAPP_TEMPLATE_ID |-> whatsapp,
   FALLBACK_EMAIL                  |-> "noreply@yourdomain.com",
   HOOK_SECRET                     |-> secret,
   SMS_COUNTRY_CODES               |-> codes]

Configs ==
  {Config(k, w, s, cc) : k \in {"", "key-123"}, w \in {<<>>, <<"3", "2">>},
                         s \in HookSecrets, cc \in CodesSamples}

NoProbe == [phone |-> <<>>, called |-> FALSE, useSMS |-> FALSE]

---------------------------------------------------------------------------
(* The handler as a state machine: one action per step between two         *)
(* suspension points or stages of the pipeline.                            *)

Tick(h) == [h EXCEPT !.steps = @ + 1]

Init ==
  /\ cfg \in Configs
  /\ hs \in [{1} -> {NewRequest(m) : m \in Methods}]
  /\ probe = NoProbe

Gate(r) ==
  /\ hs[r].pc = "start"
  /\ hs' = [hs EXCEPT ![r] = Tick(checkMethod(@))]
  /\ UNCHANGED <<cfg, probe>>

ReadBody(r) ==
  /\ hs[r].pc = "readBody"
  /\ \E outcome \in BodyOutcomes :
        hs' = [hs EXCEPT ![r] = Tick(readBody(@, outcome))]
  /\ UNCHANGED <<cfg, probe>>

Verify(r) ==
  /\ hs[r].pc = "verify"
  /\ \E sigValid \in BOOLEAN :
        hs' = [hs EXCEPT ![r] = Tick(verifyWebhook(cfg, @, sigValid))]
  /\ UNCHANGED <<cfg, probe>>

Extract(r) ==
  /\ hs[r].pc = "extract"
  /\ hs' = [hs EXCEPT ![r] = Tick(extractPayload(@))]
  /\ UNCHANGED <<cfg, probe>>

Send(r) ==
  /\ hs[r].pc = "send"
  /\ hs' = [hs EXCEPT ![r] = Tick(formatAndSend(cfg, @))]
  /\ UNCHANGED <<cfg, probe>>

FetchReturns(r) ==
  /\ hs[r].pc = "fetch"
  /\ \E outcome \in FetchOutcomes :
        hs' = [hs EXCEPT ![r] = Tick(fetchReturns(@, outcome))]
  /\ UNCHANGED <<cfg, probe>>

TextReturns(r) ==
  /\ hs[r].pc = "text"
  /\ \E outcome \in TextOutcomes :
        hs' = [hs EXCEPT ![r] = Tick(textReturns(@, outcome))]
  /\ UNCHANGED <<cfg, probe>>

Next ==
  \/ \E r \in DOMAIN hs : Gate(r)
  \/ \E r \in DOMAIN hs : ReadBody(r)
  \/ \E r \in DOMAIN hs : Verify(r)
  \/ \E r \in DOMAIN hs : Extract(r)
  \/ \E r \in DOMAIN hs : Send(r)
  \/ \E r \in DOMAIN hs : FetchReturns(r)
  \/ \E r \in DOMAIN hs : TextReturns(r)

Spec == Init /\ [][Next]_vars

\* The handler run to completion on given inputs: the steps above composed,
\* each input an empty sequence when the environment supplies none.
Run(c, method, body, sig, fetch, text) ==
  LET h1 == checkMethod(NewRequest(method))
      h2 == IF h1.pc = "readBody" /\ body # <<>> THEN readBody(h1, body[1]) ELSE h1
      h3 == IF h2.pc = "verify" /\ sig # <<>> THEN verifyWebhook(c, h2, sig[1]) ELSE h2
      h4 == IF h3.pc = "extract" THEN extractPayload(h3) ELSE h3
      h5 == IF h4.pc = "send" THEN formatAndSend(c, h4) ELSE h4
      h6 == IF h5.pc = "fetch" /\ fetch # <<>> THEN fetchReturns(h5, fetch[1]) ELSE h5
      h7 == IF h6.pc = "text" /\ text # <<>> THEN textReturns(h6, text[1]) ELSE h6
  IN  h7

---------------------------------------------------------------------------
(* Direct calls of shouldUseSMS on enumerated phones and country-code      *)
(* lists.                                                                  *)

PhoneAlphabet == {"+", "9", "1", "-", " "}
CodesAlphabet == {"+", "9", ",", " "}

InitRouter ==
  /\ cfg \in {Config("key-123", w, NoSecret, cc) :
                w \in {<<>>, <<"3", "2">>},
                cc \in StringsUpTo(CodesAlphabet, MaxCodesLen)}
  /\ hs = <<>>
  /\ probe \in {[phone |-> p, called |-> FALSE, useSMS |-> FALSE] :
                  p \in StringsUpTo(PhoneAlphabet, MaxPhoneLen)}

Route ==
  /\ ~probe.called
  /\ probe' = [probe EXCEPT !.called = TRUE,
                            !.useSMS = shouldUseSMS(cfg, probe.phone)]
  /\ UNCHANGED <<cfg, hs>>

NextRouter == Route

SpecRouter == InitRouter /\ [][NextRouter]_vars

---------------------------------------------------------------------------
(* Concurrent invocations.  The runtime starts the handler once per        *)
(* request and the invocations interleave at their await points: after     *)
(* `await req.text()` is reached (line 202), after `await fetch` is        *)
(* reached (line 114) and after `await response.text()` is reached (line   *)
(* 131).  The code between two await points runs without interruption.     *)

MaxRequests == 2

ConcMethods == {"POST", "GET"}

ConcPayloads ==
  {Payload("text", "undefined", Undefined, Undefined, "undefined", Undefined),
   Payload("object", "object", Str(PhoneDashed), Undefined, "object", Str(OtpDigits)),
   Payload("object", "object", Undefined, Str(PhoneUS), "object", Num(123456)),
   Payload("object", "object", Str(PhonePlain), Undefined, "object", Undefined)}

ConcBodyOutcomes ==
  {[ok |-> TRUE, payload |-> p, error |-> NoError] : p \in ConcPayloads}
    \cup {[ok |-> FALSE, payload |-> NoPayload,
           error |-> Error("TypeError", "error reading a body from connection")]}

ConcFetchOutcomes ==
  {[ok |-> TRUE, status |-> 200, body |-> [kind |-> "json", text |-> "{\"success\":true}"],
    error |-> NoError],
   [ok |-> TRUE, status |-> 422,
    body |-> [kind |-> "json", text |-> "{\"message\":\"invalid template\"}"],
    error |-> NoError],
   [ok |-> FALSE, status |-> 0, body |-> NoBody,
    error |-> Error("TypeError", "error sending request: connection refused")]}

ConcConfigs ==
  {Config("key-123", <<"3", "2">>,
          [set |-> TRUE, prefixed |-> TRUE, key |-> "c2VjcmV0"], <<"+", "9", "6", "6">>),
   Config("", <<>>, NoSecret, <<>>)}

\* mutant: `response` (line 114) is a module-level variable, so an
\* invocation resuming after `await response.text()` reads the response
\* another invocation has stored meanwhile
LocalsSharedResponse(r) ==
  IF hs[r].pc = "text" /\ \E q \in DOMAIN hs : q # r /\ hs[q].fetchResponse # <<>>
  THEN LET q == CHOOSE q \in DOMAIN hs : q # r /\ hs[q].fetchResponse # <<>>
       IN  [hs[r] EXCEPT !.fetchResponse = hs[q].fetchResponse]
  ELSE hs[r]

\* the variables of invocation r: every variable of the handler and of
\* sendSMS is declared with const/let inside the function, so an invocation
\* reads its own
Locals(r) == hs[r]

\* the code from the return of `await req.text()` to the next await point or
\* response: verification, extraction, validation, sendSMS up to fetch
bodyArrives(c, h, outcome, sigValid) ==
  LET h2 == readBody(h, outcome)
      h3 == IF h2.pc = "verify" THEN verifyWebhook(c, h2, sigValid) ELSE h2
      h4 == IF h3.pc = "extract" THEN extractPayload(h3) ELSE h3
      h5 == IF h4.pc = "send" THEN formatAndSend(c, h4) ELSE h4
  IN  h5

InitConc ==
  /\ cfg \in ConcConfigs
  /\ hs \in [1..MaxRequests -> {NewRequest(m) : m \in ConcMethods}]
  /\ probe = NoProbe

\* the invocation starts and runs to `await req.text()` or the 405 response
ConcStart(r) ==
  /\ hs[r].pc = "start"
  /\ hs' = [hs EXCEPT ![r] = Tick(checkMethod(Locals(r)))]
  /\ UNCHANGED <<cfg, probe>>

ConcBodyArrives(r) ==
  /\ hs[r].pc = "readBody"
  /\ \E outcome \in ConcBodyOutcomes, sigValid \in BOOLEAN :
        /\ ~outcome.ok => sigValid
        /\ hs' = [hs EXCEPT ![r] = Tick(bodyArrives(cfg, Locals(r), outcome, sigValid))]
  /\ UNCHANGED <<cfg, probe>>

ConcFetchReturns(r) ==
  /\ hs[r].pc = "fetch"
  /\ \E outcome \in ConcFetchOutcomes :
        hs' = [hs EXCEPT ![r] = Tick(fetchReturns(Locals(r), outcome))]
  /\ UNCHANGED <<cfg, probe>>

ConcTextReturns(r) ==
  /\ hs[r].pc = "text"
  /\ \E outcome \in TextOutcomes :
        hs' = [hs EXCEPT ![r] = Tick(textReturns(Locals(r), outcome))]
  /\ UNCHANGED <<cfg, probe>>

NextConc ==
  \/ \E r \in DOMAIN hs : ConcStart(r)
  \/ \E r \in DOMAIN hs : ConcBodyArrives(r)
  \/ \E r \in DOMAIN hs : ConcFetchReturns(r)
  \/ \E r \in DOMAIN hs : ConcTextReturns(r)

SpecConc == InitConc /\ [][NextConc]_vars

---------------------------------------------------------------------------
(* Vocabulary of the properties, stated on the inputs of a request rather  *)
(* than on what the handler computed from them.                            *)

Finished(h) == h.pc = "done"

\* the response of a finished request
ResponseOf(h) == h.responses[1]

\* a value that is missing or empty: absent, null, or the empty value of
\* its type
IsMissingOrEmpty(v) == v \in {Undefined, Null, Str(<<>>), Num(0), Bool(FALSE)}

\* the request body arrived and is the text of a JSON value
BodyIsJson(h) ==
  /\ h.bodyOutcome # <<>>
  /\ h.bodyOutcome[1].ok
  /\ h.bodyOutcome[1].payload.kind \in {"null", "string", "object"}

\* user.phone / user.new_phone / sms.otp as written in the body
InputField(h, field) ==
  LET p == h.bodyOutcome[1].payload
  IN  IF p.kind = "object" /\ p.user = "object" THEN p[field] ELSE Undefined

InputOtp(h) ==
  LET p == h.bodyOutcome[1].payload
  IN  IF p.kind = "object" /\ p.sms = "object" THEN p.otp ELSE Undefined

\* the phone the event resolves to: user.phone, else user.new_phone
InputPhone(h) ==
  IF IsMissingOrEmpty(InputField(h, "phone")) THEN InputField(h, "new_phone")
  ELSE InputField(h, "phone")

\* the provider answered (status line and body both received) with a 2xx status
ProviderAnswered(h) ==
  /\ h.fetchOutcome # <<>> /\ h.fetchOutcome[1].ok
  /\ h.textOutcome # <<>> /\ h.textOutcome[1].ok

ProviderAnswered2xx(h) ==
  ProviderAnswered(h) /\ h.fetchOutcome[1].status \div 100 = 2

\* an exception was raised during the provider call
ProviderThrew(h) ==
  \/ h.fetchOutcome # <<>> /\ ~h.fetchOutcome[1].ok
  \/ h.textOutcome # <<>> /\ ~h.textOutcome[1].ok

---------------------------------------------------------------------------
\* an unfinished request stands at a step of the pipeline with what that
\* step consumes at hand, so that the step's action can be taken
StepReady(h) ==
  CASE h.pc = "start"    -> h.steps = 0
    [] h.pc = "readBody" -> ~h.bodyRead
    [] h.pc = "verify"   -> h.payload # <<>>
    [] h.pc = "extract"  -> h.event # <<>>
    [] h.pc = "send"     -> h.extracted
    [] h.pc = "fetch"    -> Len(h.requests) = 1 /\ h.fetchOutcome = <<>>
    [] h.pc = "text"     -> h.fetchResponse # <<>> /\ h.textOutcome = <<>>
    [] OTHER             -> FALSE

\* C1: every request ends, within the seven steps of the pipeline, with
\* exactly one response whose status is 200, 400, 405 or 500 and whose body
\* is a JSON object sent as application/json; before it ends no response
\* exists and the next step can be taken; no exception leaves the handler.
InvC1_AlwaysOneJsonResponse ==
  \A r \in DOMAIN hs :
    LET h == hs[r]
    IN  /\ h.uncaught = <<>>
        /\ h.steps <= 7
        /\ IF Finished(h)
           THEN /\ Len(h.responses) = 1
                /\ ResponseOf(h).status \in {200, 400, 405, 500}
                /\ DOMAIN ResponseOf(h).headers = {"Content-Type"}
                /\ ResponseOf(h).headers["Content-Type"] = "application/json"
                /\ DOMAIN ResponseOf(h).body \in {{"code", "message"}, {"success"}}
           ELSE /\ h.responses = <<>>
                /\ StepReady(h)

\* a body that is not JSON ended in the catch-all's 500 response
WitC1_GarbageBodyAnswered ==
  \E r \in DOMAIN hs :
    /\ Finished(hs[r])
    /\ hs[r].payload # <<>> /\ hs[r].payload[1].kind = "text"
    /\ ResponseOf(hs[r]).status = 500
    /\ ResponseOf(hs[r]).body.code = "unexpected_failure"

\* C2: a POST request whose event has a non-empty string phone and a
\* non-empty OTP is answered 200 {success:true} when the provider answers
\* with a 2xx status, whatever its body; and 200 is returned in no other case.
InvC2_SuccessIffProvider2xx ==
  \A r \in DOMAIN hs :
    LET h == hs[r]
    IN  Finished(h) =>
          /\ ProviderAnswered2xx(h) =>
                /\ ResponseOf(h).status = 200
                /\ ResponseOf(h).body = [success |-> TRUE]
          /\ ResponseOf(h).status = 200 =>
                /\ h.method = "POST"
                /\ BodyIsJson(h)
                /\ InputPhone(h).tag = "string" /\ ~IsMissingOrEmpty(InputPhone(h))
                /\ ~IsMissingOrEmpty(InputOtp(h))
                /\ Len(h.requests) = 1
                /\ ProviderAnswered2xx(h)

\* the provider answered 204 with a body that is not JSON, and the handler
\* returned 200 {success:true}
WitC2_Success204TextBody ==
  \E r \in DOMAIN hs :
    /\ Finished(hs[r])
    /\ ProviderAnswered(hs[r])
    /\ hs[r].fetchOutcome[1].status = 204
    /\ hs[r].fetchOutcome[1].body.kind = "text"
    /\ ResponseOf(hs[r]).status = 200
    /\ ResponseOf(hs[r]).body = [success |-> TRUE]

\* C3: a parsed event in which user.phone and user.new_phone are both
\* missing or empty is answered 400 invalid_payload "Missing phone number"
\* (also when the OTP is missing); one in which a phone resolves and sms.otp
\* is missing or empty is answered 400 invalid_payload "Missing OTP".
InvC3_PayloadValidation ==
  \A r \in DOMAIN hs :
    LET h == hs[r]
    IN  (Finished(h) /\ h.event # <<>>) =>
          /\ IsMissingOrEmpty(InputPhone(h)) =>
                /\ ResponseOf(h).status = 400
                /\ ResponseOf(h).body = [code |-> "invalid_payload",
                                         message |-> <<"Missing phone number">>]
          /\ (~IsMissingOrEmpty(InputPhone(h)) /\ IsMissingOrEmpty(InputOtp(h))) =>
                /\ ResponseOf(h).status = 400
                /\ ResponseOf(h).body = [code |-> "invalid_payload",
                                         message |-> <<"Missing OTP">>]

\* phone, new_phone and OTP all missing: the phone is the one reported
WitC3_BothMissing ==
  \E r \in DOMAIN hs :
    /\ Finished(hs[r]) /\ hs[r].event # <<>>
    /\ hs[r].payload[1].user = "object"
    /\ IsMissingOrEmpty(InputField(hs[r], "phone"))
    /\ IsMissingOrEmpty(InputField(hs[r], "new_phone"))
    /\ IsMissingOrEmpty(InputOtp(hs[r]))
    /\ ResponseOf(hs[r]).body.message = <<"Missing phone number">>

\* C4: a request whose method is not POST is answered 405 method_not_allowed
\* by the first step: the body is not read or parsed, no signature is
\* verified and no provider call is made.
InvC4_MethodGate ==
  \A r \in DOMAIN hs :
    LET h == hs[r]
    IN  (h.method # "POST" /\ h.pc # "start") =>
          /\ Finished(h)
          /\ h.steps = 1
          /\ Len(h.responses) = 1
          /\ ResponseOf(h).status = 405
          /\ ResponseOf(h).body = [code |-> "method_not_allowed",
                                   message |-> <<"Only POST method is allowed">>]
          /\ ~h.bodyRead /\ h.payload = <<>>
          /\ ~h.parsed /\ h.event = <<>>
          /\ ~h.verifyAttempted
          /\ h.sendArgs = <<>> /\ h.requests = <<>>

\* a GET request was answered 405
WitC4_GetRejected ==
  \E r \in DOMAIN hs :
    /\ hs[r].method = "GET"
    /\ Finished(hs[r])
    /\ ResponseOf(hs[r]).status = 405

---------------------------------------------------------------------------
(* Channel selection, stated without the operators of the code model.      *)

NotSpaceOrDash(ch) == ch \notin {" ", "\t", "-"}
NotSpace(ch) == ch \notin {" ", "\t"}

WithPlus(s) == IF Len(s) > 0 /\ s[1] = "+" THEN s ELSE <<"+">> \o s

\* the canonical form of a phone: whitespace and hyphens removed, then a
\* leading '+' added if absent
Canonical(phone) == WithPlus(SelectSeq(phone, NotSpaceOrDash))

\* positions i..j hold an entry of the comma-separated list s
IsEntry(s, i, j) ==
  /\ i <= j + 1
  /\ \A k \in i..j : s[k] # ","
  /\ i = 1 \/ s[i - 1] = ","
  /\ j = Len(s) \/ s[j + 1] = ","

\* an entry without its surrounding whitespace
Trimmed(e) ==
  IF \A k \in 1..Len(e) : ~NotSpace(e[k]) THEN <<>>
  ELSE LET a == CHOOSE k \in 1..Len(e) :
                  NotSpace(e[k]) /\ \A m \in 1..(k - 1) : ~NotSpace(e[m])
           b == CHOOSE k \in 1..Len(e) :
                  NotSpace(e[k]) /\ \A m \in (k + 1)..Len(e) : ~NotSpace(e[m])
       IN  SubSeq(e, a, b)

\* the normalized allow-list: entries trimmed, '+' prepended if absent,
\* entries that hold no code (nothing but the '+') dropped
AllowList(codes) ==
  {WithPlus(Trimmed(SubSeq(codes, i, j))) :
     <<i, j>> \in {ij \in (1..(Len(codes) + 1)) \X (0..Len(codes)) :
                     IsEntry(codes, ij[1], ij[2])}} \ {<<"+">>}

IsPrefixOf(pre, s) == Len(pre) <= Len(s) /\ SubSeq(s, 1, Len(pre)) = pre

\* the channel the claim prescribes for a phone under a configuration
WhatsAppExpected(c, phone) ==
  /\ c.AUTHENTICA_WHATSAPP_TEMPLATE_ID # <<>>
  /\ AllowList(c.SMS_COUNTRY_CODES) # {}
  /\ \A pre \in AllowList(c.SMS_COUNTRY_CODES) : ~IsPrefixOf(pre, Canonical(phone))

\* C5: shouldUseSMS chooses WhatsApp exactly when the WhatsApp template id
\* is configured, the normalized allow-list is non-empty and the normalized
\* phone starts with none of its prefixes; otherwise SMS. With the template
\* id unset SMS is chosen for every phone, whatever the allow-list.
InvC5_ChannelSelection ==
  probe.called =>
    /\ ~probe.useSMS <=> WhatsAppExpected(cfg, probe.phone)
    /\ cfg.AUTHENTICA_WHATSAPP_TEMPLATE_ID = <<>> => probe.useSMS

\* SMS was chosen for a phone written with a hyphen and no '+', matched by
\* an allow-list entry written with a space and no '+'
WitC5_FormattedPhoneMatched ==
  /\ probe.called /\ probe.useSMS
  /\ cfg.AUTHENTICA_WHATSAPP_TEMPLATE_ID # <<>>
  /\ probe.phone = <<"9", "-", "1">>
  /\ cfg.SMS_COUNTRY_CODES = <<" ", "9">>

---------------------------------------------------------------------------
\* the delivery method the handler puts in the provider request for a phone
\* it receives: the phone is formatted (lines 277-280), then routed
HandlerChannel(c, phone) ==
  IF shouldUseSMS(c, formatPhone(phone)) THEN "sms" ELSE "whatsapp"

\* C6: the channel the handler chooses for a received phone p is the channel
\* it chooses for the canonical form of p (whitespace and hyphens removed,
\* then a leading '+' added if absent).
ClaimC6_RoutingIgnoresFormatting ==
  \A r \in DOMAIN hs :
    LET h == hs[r]
    IN  h.requests # <<>> =>
          h.requests[1].body.method = HandlerChannel(cfg, Canonical(h.phone.s))

\* C7: when delivery fails the response is 500 sms_send_failure with the
\* message "SMS service not configured" (API key absent), "Authentica API
\* error: <status>" (non-2xx answer) or "Failed to send SMS" (exception
\* during the provider call); it holds nothing but code and message, and no
\* part of the message is the provider's body or the exception's text.
InvC7_DeliveryFailureMessages ==
  \A r \in DOMAIN hs :
    LET h == hs[r]
    IN  (Finished(h) /\ h.sendArgs # <<>> /\ ~ProviderAnswered2xx(h)) =>
          /\ ResponseOf(h).status = 500
          /\ DOMAIN ResponseOf(h).body = {"code", "message"}
          /\ ResponseOf(h).body.code = "sms_send_failure"
          /\ ResponseOf(h).body.message =
               (IF cfg.AUTHENTICA_API_KEY = "" THEN <<"SMS service not configured">>
                ELSE IF ProviderThrew(h) THEN <<"Failed to send SMS">>
                ELSE <<"Authentica API error: ", ToString(h.fetchOutcome[1].status)>>)
          /\ \A i \in 1..Len(ResponseOf(h).body.message) :
               LET part == ResponseOf(h).body.message[i]
               IN  /\ \A k \in 1..Len(h.fetchOutcome) :
                          /\ part # h.fetchOutcome[k].body.text
                          /\ part # h.fetchOutcome[k].error.message
                   /\ \A k \in 1..Len(h.textOutcome) :
                          part # h.textOutcome[k].error.message

\* the provider answered 422 with a JSON error body and the caller got the
\* status-coded message only
WitC7_Provider422 ==
  \E r \in DOMAIN hs :
    /\ Finished(hs[r])
    /\ ProviderAnswered(hs[r])
    /\ hs[r].fetchOutcome[1].status = 422
    /\ hs[r].fetchOutcome[1].body.kind = "json"
    /\ ResponseOf(hs[r]).status = 500
    /\ ResponseOf(hs[r]).body.message = <<"Authentica API error: ", "422">>

\* C8: for a request that reaches delivery, the OTP passed on is the
\* event's sms.otp and the phone passed on is user.phone when non-empty,
\* otherwise user.new_phone, changed only by a '+' put in front when it does
\* not start with one.
InvC8_NoMutation ==
  \A r \in DOMAIN hs :
    LET h == hs[r]
        source == IF ~IsMissingOrEmpty(InputField(h, "phone"))
                  THEN InputField(h, "phone") ELSE InputField(h, "new_phone")
        sent == IF source.s # <<>> /\ source.s[1] = "+" THEN source.s
                ELSE <<"+">> \o source.s
    IN  h.sendArgs # <<>> =>
          /\ source.tag = "string"
          /\ h.sendArgs[1].phone = sent
          /\ h.sendArgs[1].otp = InputOtp(h)
          /\ \A i \in 1..Len(h.requests) :
                /\ h.requests[i].body.phone = sent
                /\ h.requests[i].body.otp = InputOtp(h)

\* user.phone (hyphenated, no '+') and user.new_phone both present: the
\* provider was sent user.phone with a '+' in front, hyphens kept
WitC8_PhonePreferredHyphensKept ==
  \E r \in DOMAIN hs :
    /\ hs[r].requests # <<>>
    /\ InputField(hs[r], "phone") = Str(PhoneDashed)
    /\ InputField(hs[r], "new_phone") = Str(PhoneUS)
    /\ hs[r].requests[1].body.phone = <<"+">> \o PhoneDashed

\* C9: a finished POST request with a JSON body has the same provider
\* requests and the same response as the handler run on the same body and
\* provider behaviour under any other webhook secret and any other result of
\* the signature check.
InvC9_OutcomeIgnoresVerification ==
  \A r \in DOMAIN hs :
    LET h == hs[r]
    IN  (Finished(h) /\ h.method = "POST" /\ BodyIsJson(h)) =>
          \A secret \in HookSecrets, sigValid \in BOOLEAN :
            LET other == Run([cfg EXCEPT !.HOOK_SECRET = secret], h.method,
                             h.bodyOutcome, <<sigValid>>, h.fetchOutcome,
                             h.textOutcome)
            IN  /\ other.responses = h.responses
                /\ other.requests = h.requests

\* a request whose signature check failed under a configured secret was
\* delivered and answered 200
WitC9_UnverifiedDelivered ==
  \E r \in DOMAIN hs :
    /\ Finished(hs[r])
    /\ hs[r].verifyAttempted
    /\ hs[r].sigValid = <<FALSE>>
    /\ ResponseOf(hs[r]).status = 200

\* the verifier step has acted on the request
VerifierActed(h) == h.method = "POST" /\ h.parsed

\* C10 as stated: for every raw body, in each verifier path the step
\* outputs an event and the request goes on to payload extraction without a
\* response from the verifier step.
ClaimC10_VerifierNeverTerminates ==
  \A r \in DOMAIN hs :
    LET h == hs[r]
    IN  VerifierActed(h) =>
          /\ h.event # <<>>
          /\ h.pc = "extract" \/ h.extracted

\* C10 amended: for every raw body that is JSON, in each verifier path the
\* step outputs an event and the request goes on to payload extraction; for
\* a raw body that is not JSON the step ends the request, in each path,
\* with the catch-all's 500 unexpected_failure.
InvC10_VerifierPassesJsonBodies ==
  \A r \in DOMAIN hs :
    LET h == hs[r]
    IN  VerifierActed(h) =>
          IF BodyIsJson(h)
          THEN /\ h.event # <<>>
               /\ h.pc = "extract" \/ h.extracted
               /\ h.pc = "extract" => h.responses = <<>>
          ELSE /\ h.event = <<>> /\ ~h.extracted
               /\ Finished(h)
               /\ ResponseOf(h).status = 500
               /\ ResponseOf(h).body.code = "unexpected_failure"

\* a secret is configured, the signature did not verify, and the request
\* stands at payload extraction with an event and no response
WitC10_FailedVerificationProceeds ==
  \E r \in DOMAIN hs :
    /\ hs[r].verifyAttempted
    /\ hs[r].sigValid = <<FALSE>>
    /\ hs[r].pc = "extract"
    /\ hs[r].event # <<>>
    /\ hs[r].responses = <<>>

---------------------------------------------------------------------------
\* C11: a request makes at most one call to the provider, also after a
\* non-2xx answer or an exception, and makes it only when the method is
\* POST, the body was parsed into an event, phone and OTP are non-empty and
\* the API key is configured; so a request answered 405 or 400, and any
\* request handled without an API key, made no call.
InvC11_SingleGuardedProviderCall ==
  \A r \in DOMAIN hs :
    LET h == hs[r]
    IN  /\ Len(h.requests) <= 1
        /\ h.requests # <<>> =>
              /\ h.method = "POST"
              /\ BodyIsJson(h) /\ h.event # <<>>
              /\ ~IsMissingOrEmpty(InputPhone(h))
              /\ ~IsMissingOrEmpty(InputOtp(h))
              /\ cfg.AUTHENTICA_API_KEY # ""
              /\ h.requests[1].headers.XAuthorization = cfg.AUTHENTICA_API_KEY
        /\ cfg.AUTHENTICA_API_KEY = "" => h.requests = <<>>
        /\ (Finished(h) /\ h.responses # <<>>
              /\ ResponseOf(h).status \in {400, 405}) => h.requests = <<>>
        /\ (Finished(h) /\ (ProviderThrew(h) \/ ProviderAnswered(h))) =>
              Len(h.requests) = 1

\* the fetch was rejected, the request ended with 500 and made one call
WitC11_NoRetryAfterException ==
  \E r \in DOMAIN hs :
    /\ Finished(hs[r])
    /\ hs[r].fetchOutcome # <<>> /\ ~hs[r].fetchOutcome[1].ok
    /\ Len(hs[r].requests) = 1
    /\ ResponseOf(hs[r]).status = 500

---------------------------------------------------------------------------
\* the handler run alone on the inputs invocation h has received so far
Alone(h) ==
  Run(cfg, h.method, h.bodyOutcome, h.sigValid, h.fetchOutcome, h.textOutcome)

\* each started invocation stands where its run alone stands, with the same
\* provider requests and the same responses
EachAsAlone ==
  \A r \in DOMAIN hs :
    hs[r].pc # "start" =>
      /\ Alone(hs[r]).pc = hs[r].pc
      /\ Alone(hs[r]).requests = hs[r].requests
      /\ Alone(hs[r]).responses = hs[r].responses

\* a step leaves the configuration and every other invocation as they were
StepTouchesOneInvocation ==
  /\ cfg' = cfg
  /\ \A r \in DOMAIN hs : \A q \in DOMAIN hs :
        (hs'[r] # hs[r] /\ q # r) => hs'[q] = hs[q]

\* C12: under any interleaving of the invocations at their await points,
\* each request's provider request and response are those of the same
\* request run alone with the same provider behaviour, and no step changes
\* the configuration or the state of another invocation.
ThmC12_InvocationsIndependent ==
  []EachAsAlone /\ [][StepTouchesOneInvocation]_vars

\* two invocations are suspended at `await response.text()` at the same
\* time, the first holding a 422 answer to its sms request and the second a
\* 200 answer to its whatsapp request, and neither has responded
WitC12_BothAwaitingText ==
  /\ {1, 2} \subseteq DOMAIN hs
  /\ hs[1].pc = "text" /\ hs[2].pc = "text"
  /\ hs[1].fetchResponse[1].status = 422
  /\ hs[2].fetchResponse[1].status = 200
  /\ hs[1].requests[1].body.method = "sms"
  /\ hs[2].requests[1].body.method = "whatsapp"
  /\ hs[1].responses = <<>> /\ hs[2].responses = <<>>

=============================================================================
